---- MODULE Spec2Model ----
(***************************************************************************)
(* Textract batch pipeline: the block-graph extractor and the job          *)
(* lifecycle (launcher, notification handler, recovery script) over the    *)
(* job table, the analysis service and the output bucket.                  *)
(*                                                                         *)
(* Strings are sequences of tokens: a token is a run of characters that    *)
(* no operation of the code splits ("/" and ".pdf" are tokens of their     *)
(* own, " " is the whitespace token).  Python dicts are records; a key     *)
(* that may be missing is a field that may be missing from DOMAIN.         *)
(***************************************************************************)
EXTENDS Integers, Sequences, FiniteSets, TLC

\* Python's None (a record, so that it compares with dicts).
None == [absent |-> TRUE]

\* ------------------------------------------------------------------------
\* String helpers (token sequences)
\* ------------------------------------------------------------------------

RECURSIVE LStrip(_)
\* str.lstrip(): drop leading whitespace tokens.
LStrip(s) ==
    IF s # <<>> /\ Head(s) = " " THEN LStrip(Tail(s)) ELSE s

RECURSIVE RStrip(_)
\* str.rstrip(): drop trailing whitespace tokens.
RStrip(s) ==
    IF s # <<>> /\ s[Len(s)] = " " THEN RStrip(SubSeq(s, 1, Len(s) - 1)) ELSE s

\* str.strip(): the string is read once, stripped on the left, then on
\* the right.
Strip(s) ==
    CHOOSE t \in { RStrip(u) : u \in { LStrip(v) : v \in {s} } } : TRUE

RECURSIVE RStripSlash(_)
\* str.rstrip('/')
RStripSlash(s) ==
    IF s # <<>> /\ s[Len(s)] = "/" THEN RStripSlash(SubSeq(s, 1, Len(s) - 1)) ELSE s

\* s.split('/')[-1]: what follows the last "/" token.
LastSegment(s) ==
    LET slashes == {i \in 1..Len(s) : s[i] = "/"}
        last == IF slashes = {} THEN 0
                ELSE CHOOSE i \in slashes : \A k \in slashes : k <= i
    IN SubSeq(s, last + 1, Len(s))

\* s.replace('.pdf', '.json'): every occurrence is replaced.
ReplacePdf(s) == [i \in 1..Len(s) |-> IF s[i] = ".pdf" THEN ".json" ELSE s[i]]

\* ------------------------------------------------------------------------
\* Block-graph extractor (lambda_result_processor.py)
\* ------------------------------------------------------------------------

\* block_map = {block['Id']: block for block in blocks}: a later block
\* with the same Id replaces an earlier one.
BlockMap(blocks) ==
    [id \in {blocks[i].Id : i \in 1..Len(blocks)} |->
        LET idxs == {i \in 1..Len(blocks) : blocks[i].Id = id}
        IN blocks[CHOOSE i \in idxs : \A k \in idxs : k <= i]]

\* dict.get(key): None when the key is absent.
MapGet(block_map, id) == IF id \in DOMAIN block_map THEN block_map[id] ELSE None

RECURSIVE RelIds(_, _)
\* The ids of the relationships of one type, in relationship order.
RelIds(rels, type) ==
    IF rels = <<>> THEN <<>>
    ELSE (IF Head(rels).Type = type THEN Head(rels).Ids ELSE <<>>)
         \o RelIds(Tail(rels), type)

RECURSIVE WordsText(_, _)
\* WordsText leaving the loop at the first child id that is not in the
\* block map.
WordsText_StopAtMissing(ids, block_map) ==
    IF ids = <<>> THEN <<>>
    ELSE LET child == MapGet(block_map, Head(ids))
         IN IF child = None THEN <<>>
            ELSE (IF child.BlockType = "WORD"
                  THEN child.Text \o <<" ">> ELSE <<>>)
                 \o WordsText(Tail(ids), block_map)

\* text += child['Text'] + ' ' for every child id that resolves to a WORD.
WordsText(ids, block_map) ==
    IF ids = <<>> THEN <<>>
    ELSE LET child == MapGet(block_map, Head(ids))
         IN (IF child # None /\ child.BlockType = "WORD"
             THEN child.Text \o <<" ">> ELSE <<>>)
            \o WordsText(Tail(ids), block_map)

get_text_from_relationship(block, block_map) ==
    IF block = None THEN <<>>
    ELSE IF "Relationships" \in DOMAIN block
         THEN Strip(WordsText(RelIds(block.Relationships, "CHILD"), block_map))
         ELSE <<>>

\* get_value_block returning the block of the last VALUE id instead of
\* the first.
get_value_block_LastId(key_block, block_map) ==
    IF "Relationships" \in DOMAIN key_block
    THEN LET ids == RelIds(key_block.Relationships, "VALUE")
         IN IF ids = <<>> THEN None ELSE MapGet(block_map, ids[Len(ids)])
    ELSE None

\* The first id of the first VALUE relationship that has ids decides.
get_value_block(key_block, block_map) ==
    IF "Relationships" \in DOMAIN key_block
    THEN LET ids == RelIds(key_block.Relationships, "VALUE")
         IN IF ids = <<>> THEN None ELSE MapGet(block_map, Head(ids))
    ELSE None

\* dict.get(key, default)
GetOr(d, key, default) == IF key \in DOMAIN d THEN d[key] ELSE default

RECURSIVE SortedSeq(_)
\* sorted(keys)
SortedSeq(S) ==
    IF S = {} THEN <<>>
    ELSE LET m == CHOOSE x \in S : \A y \in S : x <= y
         IN <<m>> \o SortedSeq(S \ {m})

RECURSIVE CollectCells(_, _, _)
\* CollectCells with the two indexes taken for one another:
\* cells[col_index][row_index] = cell_text.
CollectCells_Transposed(ids, block_map, cells) ==
    IF ids = <<>> THEN cells
    ELSE LET cell_block == MapGet(block_map, Head(ids))
         IN IF cell_block # None /\ cell_block.BlockType = "CELL"
            THEN LET row_index == GetOr(cell_block, "ColumnIndex", 0)
                     col_index == GetOr(cell_block, "RowIndex", 0)
                     cell_text == get_text_from_relationship(cell_block, block_map)
                     row == IF row_index \in DOMAIN cells THEN cells[row_index]
                            ELSE [c \in {} |-> <<>>]
                     row2 == [c \in DOMAIN row \cup {col_index} |->
                                 IF c = col_index THEN cell_text ELSE row[c]]
                 IN CollectCells(Tail(ids), block_map,
                        [r \in DOMAIN cells \cup {row_index} |->
                            IF r = row_index THEN row2 ELSE cells[r]])
            ELSE CollectCells(Tail(ids), block_map, cells)

\* cells[row_index][col_index] = cell_text, for the CELL children in order
\* (a later cell at the same position replaces the earlier one).
CollectCells(ids, block_map, cells) ==
    IF ids = <<>> THEN cells
    ELSE LET cell_block == MapGet(block_map, Head(ids))
         IN IF cell_block # None /\ cell_block.BlockType = "CELL"
            THEN LET row_index == GetOr(cell_block, "RowIndex", 0)
                     col_index == GetOr(cell_block, "ColumnIndex", 0)
                     cell_text == get_text_from_relationship(cell_block, block_map)
                     row == IF row_index \in DOMAIN cells THEN cells[row_index]
                            ELSE [c \in {} |-> <<>>]
                     row2 == [c \in DOMAIN row \cup {col_index} |->
                                 IF c = col_index THEN cell_text ELSE row[c]]
                 IN CollectCells(Tail(ids), block_map,
                        [r \in DOMAIN cells \cup {row_index} |->
                            IF r = row_index THEN row2 ELSE cells[r]])
            ELSE CollectCells(Tail(ids), block_map, cells)

\* extract_table returning table_data whether or not it has rows.
extract_table_KeepEmpty(table_block, block_map) ==
    IF "Relationships" \notin DOMAIN table_block THEN None
    ELSE LET cells == CollectCells(RelIds(table_block.Relationships, "CHILD"),
                                   block_map, [r \in {} |-> <<>>])
             rowIdx == SortedSeq(DOMAIN cells)
             rows == [i \in 1..Len(rowIdx) |->
                        LET colIdx == SortedSeq(DOMAIN cells[rowIdx[i]])
                        IN [k \in 1..Len(colIdx) |-> cells[rowIdx[i]][colIdx[k]]]]
         IN [rows |-> rows, confidence |-> GetOr(table_block, "Confidence", 0)]

\* None when the table has no relationships or yields no row.
extract_table(table_block, block_map) ==
    IF "Relationships" \notin DOMAIN table_block THEN None
    ELSE LET cells == CollectCells(RelIds(table_block.Relationships, "CHILD"),
                                   block_map, [r \in {} |-> <<>>])
             rowIdx == SortedSeq(DOMAIN cells)
             rows == [i \in 1..Len(rowIdx) |->
                        LET colIdx == SortedSeq(DOMAIN cells[rowIdx[i]])
                        IN [k \in 1..Len(colIdx) |-> cells[rowIdx[i]][colIdx[k]]]]
         IN IF rows # <<>>
            THEN [rows |-> rows, confidence |-> GetOr(table_block, "Confidence", 0)]
            ELSE None

RECURSIVE RawText(_)
\* RawText inserting each line at the front of the list instead of
\* appending it.
RawText_NewestFirst(blocks) ==
    IF blocks = <<>> THEN <<>>
    ELSE RawText(Tail(blocks))
         \o (IF Head(blocks).BlockType = "LINE"
             THEN <<[text |-> Head(blocks).Text, confidence |-> Head(blocks).Confidence]>>
             ELSE <<>>)

\* The LINE branch of the loop over the blocks (lines 145-150).
RawText(blocks) ==
    IF blocks = <<>> THEN <<>>
    ELSE (IF Head(blocks).BlockType = "LINE"
          THEN <<[text |-> Head(blocks).Text, confidence |-> Head(blocks).Confidence]>>
          ELSE <<>>)
         \o RawText(Tail(blocks))

RECURSIVE KeyValuePairs(_, _)
\* KeyValuePairs without the test on EntityTypes: every KEY_VALUE_SET
\* block gives a pair.
KeyValuePairs_EveryBlock(blocks, block_map) ==
    IF blocks = <<>> THEN <<>>
    ELSE LET block == Head(blocks)
         IN (IF block.BlockType = "KEY_VALUE_SET"
             THEN LET value_block == get_value_block(block, block_map)
                  IN <<[key |-> get_text_from_relationship(block, block_map),
                        value |-> IF value_block # None
                                  THEN get_text_from_relationship(value_block, block_map)
                                  ELSE <<>>,
                        confidence |-> block.Confidence]>>
             ELSE <<>>)
            \o KeyValuePairs(Tail(blocks), block_map)

\* The KEY_VALUE_SET branch of the loop over the blocks (lines 152-161).
KeyValuePairs(blocks, block_map) ==
    IF blocks = <<>> THEN <<>>
    ELSE LET block == Head(blocks)
         IN (IF block.BlockType = "KEY_VALUE_SET"
                /\ "KEY" \in GetOr(block, "EntityTypes", {})
             THEN LET value_block == get_value_block(block, block_map)
                  IN <<[key |-> get_text_from_relationship(block, block_map),
                        value |-> IF value_block # None
                                  THEN get_text_from_relationship(value_block, block_map)
                                  ELSE <<>>,
                        confidence |-> block.Confidence]>>
             ELSE <<>>)
            \o KeyValuePairs(Tail(blocks), block_map)

RECURSIVE Tables(_, _)
Tables(blocks, block_map) ==
    IF blocks = <<>> THEN <<>>
    ELSE LET table_data == IF Head(blocks).BlockType = "TABLE"
                           THEN extract_table(Head(blocks), block_map)
                           ELSE None
         IN (IF table_data # None THEN <<table_data>> ELSE <<>>)
            \o Tables(Tail(blocks), block_map)

\* lambda_result_processor.parse_textract_response.  The block list and
\* the block map are each built once (b, block_map) and then read.
parse_textract_response(blocks) ==
    CHOOSE result \in
        UNION { { [raw_text |-> RawText(b),
                   key_value_pairs |-> KeyValuePairs(b, block_map),
                   tables |-> Tables(b, block_map)]
                  : block_map \in {BlockMap(b)} }
                : b \in {blocks} } : TRUE

\* recover_failed_notifications.parse_textract_response: the script's own
\* copy of the extractor, which has no TABLE branch.
recover_parse_textract_response(blocks) ==
    CHOOSE result \in
        UNION { { [raw_text |-> RawText(b),
                   key_value_pairs |-> KeyValuePairs(b, block_map),
                   tables |-> <<>>]
                  : block_map \in {BlockMap(b)} }
                : b \in {blocks} } : TRUE

\* ------------------------------------------------------------------------
\* Configuration (textract_processor/config.py, environment defaults)
\* ------------------------------------------------------------------------

SOURCE_BUCKET == "source-bucket"
OUTPUT_BUCKET == SOURCE_BUCKET
OUTPUT_PREFIX == <<"processed", "/">>

get_output_key(batch_prefix, filename) ==
    IF OUTPUT_PREFIX # <<>>
    THEN RStripSlash(OUTPUT_PREFIX) \o <<"/">> \o batch_prefix \o filename
    ELSE batch_prefix \o filename

\* ------------------------------------------------------------------------
\* Bounds and sample inputs
\* ------------------------------------------------------------------------

\* Envelopes per notification batch.
MaxBatch == 2
\* Ticks of the wall clock (datetime.utcnow() reads it).
MaxClock == 1

\* The batch prefix of the launcher event and the keys a source bucket may
\* hold under it: a PDF and a file that is no PDF, with or without a second
\* PDF of the same file name in a sub-folder.
BatchPrefix == <<"batch-1", "/">>
OneDocument ==
    << <<"batch-1", "/", "a", ".pdf">>,
       <<"batch-1", "/", "notes", ".txt">> >>
TwoDocuments ==
    << <<"batch-1", "/", "a", ".pdf">>,
       <<"batch-1", "/", "notes", ".txt">>,
       <<"batch-1", "/", "sub", "/", "a", ".pdf">> >>

\* The bucket names a launcher event may carry.
EventBuckets == {SOURCE_BUCKET, "other-bucket"}

\* The job ids the analysis service hands out, by submission order.
JobIdSeq == <<"job1", "job2">>
JobIds == {JobIdSeq[i] : i \in 1..Len(JobIdSeq)}

Word(id, text) ==
    [Id |-> id, BlockType |-> "WORD", Text |-> <<text>>, Confidence |-> 90]
Cell(id, row, col, children) ==
    [Id |-> id, BlockType |-> "CELL", RowIndex |-> row, ColumnIndex |-> col,
     Confidence |-> 80,
     Relationships |-> <<[Type |-> "CHILD", Ids |-> children]>>]

\* The blocks the service holds for each job once it has succeeded, in
\* delivery order: job1 a form with a key-value pair and a sparse table,
\* job2 a line, a key without value and a table whose child is missing.
ResultBlocks(job_id) ==
    IF job_id = "job1"
    THEN << [Id |-> "p1", BlockType |-> "PAGE"],
            [Id |-> "l1", BlockType |-> "LINE", Confidence |-> 99,
             Text |-> <<"Invoice", " ", "Date">>,
             Relationships |-> <<[Type |-> "CHILD", Ids |-> <<"w1", "w2">>]>>],
            Word("w1", "Invoice"), Word("w2", "Date"), Word("w3", "2024-01-01"),
            [Id |-> "k1", BlockType |-> "KEY_VALUE_SET", Confidence |-> 95,
             EntityTypes |-> {"KEY"},
             Relationships |-> <<[Type |-> "VALUE", Ids |-> <<"v1">>],
                                 [Type |-> "CHILD", Ids |-> <<"w1", "w2">>]>>],
            [Id |-> "v1", BlockType |-> "KEY_VALUE_SET", Confidence |-> 94,
             EntityTypes |-> {"VALUE"},
             Relationships |-> <<[Type |-> "CHILD", Ids |-> <<"w3">>]>>],
            [Id |-> "t1", BlockType |-> "TABLE", Confidence |-> 88,
             Relationships |-> <<[Type |-> "CHILD", Ids |-> <<"c21", "c12", "c11">>]>>],
            Cell("c11", 1, 1, <<"wa">>), Cell("c12", 1, 2, <<"wb">>),
            Cell("c21", 2, 1, <<"wc">>),
            Word("wa", "A"), Word("wb", "B"), Word("wc", "C") >>
    ELSE << [Id |-> "l1", BlockType |-> "LINE", Confidence |-> 70,
             Text |-> <<"Total">>],
            [Id |-> "k1", BlockType |-> "KEY_VALUE_SET", Confidence |-> 60,
             EntityTypes |-> {"KEY"},
             Relationships |-> <<[Type |-> "CHILD", Ids |-> <<"w1", "gone">>]>>],
            Word("w1", "Total"),
            [Id |-> "t1", BlockType |-> "TABLE", Confidence |-> 50,
             Relationships |-> <<[Type |-> "CHILD", Ids |-> <<"gone">>]>>] >>

\* Blocks per page of a get_document_analysis response (the service's).
PageSize == 8

\* ------------------------------------------------------------------------
\* State
\* ------------------------------------------------------------------------

VARIABLES
    source,     \* the keys listed under the batch prefix in the source bucket
    table,      \* DynamoDB job table: job id -> item, None when there is none
    s3,         \* output objects: <<bucket, key>> -> body
    svc,        \* analysis service: job id -> NONE, IN_PROGRESS, SUCCEEDED, FAILED
    expired,    \* job ids past the service's retention window
    queue,      \* completion messages published and deliverable (at least once)
    clock,      \* wall clock
    launch,     \* the launcher's response body, None before it has run
    h,          \* the running lambda_result_processor invocation
    r,          \* the running recover_failed_notifications process
    doc,        \* a service response studied on its own: pages, or blocks
    run         \* the retrieval loop or the extractor running on doc

vars == <<source, table, s3, svc, expired, queue, clock, launch, h, r, doc, run>>

\* ------------------------------------------------------------------------
\* Collaborators: job table, output bucket, analysis service
\* ------------------------------------------------------------------------

\* An UpdateExpression 'SET a = :a, ...' on one item.
SetAttrs(item, attrs) ==
    [k \in DOMAIN item \cup DOMAIN attrs |->
        IF k \in DOMAIN attrs THEN attrs[k] ELSE item[k]]

\* table.update_item(Key={'JobId': job_id}, UpdateExpression='SET ...'):
\* no ConditionExpression is given, so the item is written whatever it
\* holds, and created when there is none.
UpdateItem(tbl, job_id, attrs) ==
    [tbl EXCEPT ![job_id] =
        SetAttrs(IF @ = None THEN [JobId |-> job_id] ELSE @, attrs)]

\* s3.put_object(Bucket, Key, Body): replaces the object at that key.
PutObject(store, bucket, key, body) ==
    [loc \in DOMAIN store \cup {<<bucket, key>>} |->
        IF loc = <<bucket, key>> THEN body ELSE store[loc]]

\* The pages of a succeeded job's result: PageSize blocks each.
NumPages(job_id) ==
    LET n == Len(ResultBlocks(job_id))
    IN IF n = 0 THEN 1 ELSE (n + PageSize - 1) \div PageSize

\* textract.get_document_analysis(JobId, NextToken) for a job the service
\* still holds.  A token names the page it asks for.
GetDocumentAnalysis(job_id, token) ==
    LET page == IF token = None THEN 1 ELSE token.page
        all == ResultBlocks(job_id)
        blocks == IF svc[job_id] = "SUCCEEDED"
                  THEN SubSeq(all, (page - 1) * PageSize + 1,
                              IF page * PageSize < Len(all) THEN page * PageSize
                              ELSE Len(all))
                  ELSE <<>>
        base == [JobStatus |-> svc[job_id], Blocks |-> blocks]
    IN IF svc[job_id] = "SUCCEEDED" /\ page < NumPages(job_id)
       THEN SetAttrs(base, [NextToken |-> [page |-> page + 1]])
       ELSE base

\* ------------------------------------------------------------------------
\* Launcher (lambda_batch_initiator.py)
\* ------------------------------------------------------------------------

\* key.endswith('.pdf')
EndsWithPdf(key) == key # <<>> /\ key[Len(key)] = ".pdf"

RECURSIVE PdfFiles(_)
\* The listed keys that end with '.pdf', in listing order.
PdfFiles(keys) ==
    IF keys = <<>> THEN <<>>
    ELSE (IF EndsWithPdf(Head(keys)) THEN <<Head(keys)>> ELSE <<>>)
         \o PdfFiles(Tail(keys))

\* What can happen to one document: both calls succeed, or
\* start_document_analysis raises, or put_item raises after the job started.
SubmitOutcomes == {"ok", "submit_error", "put_error"}

\* The job id the service returns for the i-th document: ids are handed out
\* in order to the submissions it accepted.
SubmittedJobId(outcome, i) ==
    JobIdSeq[Cardinality({k \in 1..i : outcome[k] # "submit_error"})]

\* lambda_handler of the launcher, over a whole batch.
Launch ==
    /\ launch = None
    /\ \E bucket_name \in EventBuckets :
       LET pdf_files == PdfFiles(source) IN
       \E outcome \in [1..Len(pdf_files) -> SubmitOutcomes] :
          LET started == {i \in 1..Len(pdf_files) : outcome[i] = "ok"}
              submitted == {i \in 1..Len(pdf_files) : outcome[i] # "submit_error"}
              docOf(j) == CHOOSE i \in submitted : SubmittedJobId(outcome, i) = j
              jobsStarted == {SubmittedJobId(outcome, i) : i \in started}
              jobsSubmitted == {SubmittedJobId(outcome, i) : i \in submitted}
          IN /\ svc' = [j \in JobIds |->
                          IF j \in jobsSubmitted THEN "IN_PROGRESS" ELSE svc[j]]
             /\ table' = [j \in JobIds |->
                          IF j \in jobsStarted
                          THEN [JobId |-> j,
                                SourceKey |-> pdf_files[docOf(j)],
                                Bucket |-> bucket_name,
                                BatchPrefix |-> BatchPrefix,
                                Status |-> "IN_PROGRESS",
                                StartTime |-> clock]
                          ELSE table[j]]
             /\ launch' = [jobs_started |-> Cardinality(started),
                           jobs_failed |-> Len(pdf_files) - Cardinality(started),
                           failed_jobs |-> {pdf_files[i] :
                                              i \in 1..Len(pdf_files) \ started}]
    /\ UNCHANGED <<doc, run, source, s3, expired, queue, clock, h, r>>

\* ------------------------------------------------------------------------
\* Environment: the analysis service, the notification channel, time
\* ------------------------------------------------------------------------

\* Job j finishes; the completion message reaches the queue, or is lost.
ServiceFinishOf(j) ==
    \E status \in {"SUCCEEDED", "FAILED"}, published \in BOOLEAN :
       /\ svc[j] = "IN_PROGRESS"
       /\ svc' = [svc EXCEPT ![j] = status]
       /\ queue' = IF published THEN queue \cup {[JobId |-> j, Status |-> status]}
                   ELSE queue
       /\ UNCHANGED <<doc, run, source, table, s3, expired, clock, launch, h, r>>

ServiceFinish == \E j \in JobIds : ServiceFinishOf(j)

\* The finished job j ages out of the service: its id becomes unknown.
ServiceExpireOf(j) ==
    /\ svc[j] \in {"SUCCEEDED", "FAILED"}
    /\ j \notin expired
    /\ expired' = expired \cup {j}
    /\ UNCHANGED <<doc, run, source, table, s3, svc, queue, clock, launch, h, r>>

ServiceExpire == \E j \in JobIds : ServiceExpireOf(j)

Tick ==
    /\ clock < MaxClock
    /\ clock' = clock + 1
    /\ UNCHANGED <<doc, run, source, table, s3, svc, expired, queue, launch, h, r>>

\* ------------------------------------------------------------------------
\* Notification handler (lambda_result_processor.py)
\* ------------------------------------------------------------------------

\* A string that is no JSON document.
NotJson == [not_json |-> TRUE]

\* The SQS record wrapping an SNS message wrapping a completion message.
Envelope(message) == [body |-> [Message |-> message]]

\* The malformed record a batch may carry: a body that is no JSON.
Malformed == { [body |-> NotJson] }

\* Lines 22-26: json.loads of the body and of its 'Message', then the two
\* fields.  ok = FALSE when any of them raises.
ParseEnvelope(record) ==
    LET sns_message == record.body
    IN IF sns_message = NotJson \/ "Message" \notin DOMAIN sns_message
       THEN [ok |-> FALSE]
       ELSE LET message == sns_message.Message
            IN IF message = NotJson
                  \/ "JobId" \notin DOMAIN message
                  \/ "Status" \notin DOMAIN message
               THEN [ok |-> FALSE]
               ELSE [ok |-> TRUE, JobId |-> message.JobId, Status |-> message.Status]

\* The batches an invocation may be handed: deliverable messages (each as
\* often as the channel re-delivers it) and malformed records, in any order.
Batches ==
    LET pool == {Envelope(m) : m \in queue} \cup Malformed
    IN UNION {[1..n -> pool] : n \in 1..MaxBatch}

RECURSIVE HandlerRetrieve(_, _)
\* Lines 56-73: follow NextToken until a page has none.
HandlerRetrieve(job_id, next_token) ==
    LET result == GetDocumentAnalysis(job_id, next_token)
    IN result.Blocks \o
       (IF "NextToken" \in DOMAIN result
        THEN HandlerRetrieve(job_id, result.NextToken)
        ELSE <<>>)

\* Lines 78-88: the extracted data with its metadata.
HandlerBody(job_data, job_id, blocks, now) ==
    SetAttrs(parse_textract_response(blocks),
        [metadata |-> [source_file |-> job_data.SourceKey,
                       bucket |-> job_data.Bucket,
                       batch |-> job_data.BatchPrefix,
                       job_id |-> job_id,
                       processed_time |-> now,
                       total_blocks |-> Len(blocks)]])

\* Lines 91-92.
HandlerOutputKey(job_data) ==
    get_output_key(job_data.BatchPrefix, ReplacePdf(LastSegment(job_data.SourceKey)))

HIdle ==
    [pc |-> "idle", batch |-> <<>>, idx |-> 0,
     processed_count |-> 0, failed_count |-> 0,
     job_data |-> None, body |-> None, output_key |-> None,
     out |-> <<>>, calls |-> {}]

\* The invocation starts on a batch (lines 16-17).
HStart ==
    /\ h.pc = "idle"
    /\ \E batch \in Batches :
          h' = [HIdle EXCEPT !.pc = "loop", !.batch = batch, !.idx = 1]
    /\ UNCHANGED <<doc, run, source, table, s3, svc, expired, queue, clock, launch, r>>

\* HFail with the except clause around the loop instead of inside it: the
\* first failure ends the batch.
HFail_Abort(outcome, calls) ==
    [h EXCEPT !.pc = "loop", !.idx = Len(h.batch) + 1, !.failed_count = @ + 1,
              !.job_data = None, !.body = None, !.output_key = None,
              !.out = Append(@, outcome), !.calls = calls]

\* The envelope is given up: failed_count += 1 and on to the next record
\* (lines 42-43, 50-51 and the except clause, lines 119-121).
HFail(outcome, calls) ==
    [h EXCEPT !.pc = "loop", !.idx = @ + 1, !.failed_count = @ + 1,
              !.job_data = None, !.body = None, !.output_key = None,
              !.out = Append(@, outcome), !.calls = calls]

\* HMarkFailed writing a bare FAILED, without the service's status.
HMarkFailed_NoSuffix(job_id, status, fault) ==
    /\ s3' = s3
    /\ IF fault
       THEN /\ h' = HFail("error", {"update_item"})
            /\ table' = table
       ELSE /\ h' = HFail("failed_status", {"update_item"})
            /\ table' = UpdateItem(table, job_id,
                           [Status |-> "FAILED", CompletedTime |-> clock])

\* On a record whose status is not SUCCEEDED (lines 30-43).
HMarkFailed(job_id, status, fault) ==
    /\ s3' = s3
    /\ IF fault
       THEN /\ h' = HFail("error", {"update_item"})
            /\ table' = table
       ELSE /\ h' = HFail("failed_status", {"update_item"})
            /\ table' = UpdateItem(table, job_id,
                           [Status |-> "FAILED_" \o status, CompletedTime |-> clock])

\* HFetch without the 'Item' not in response test: the blocks of an
\* unknown job are retrieved before the missing item is noticed.
HFetch_NoItemCheck(job_id, fault) ==
    /\ table' = table
    /\ s3' = s3
    /\ IF fault = "get_item"
       THEN h' = HFail("error", {"get_item"})
       ELSE IF fault = "get_document_analysis" \/ job_id \in expired
               \/ table[job_id] = None
       THEN h' = HFail("error", {"get_item", "get_document_analysis"})
       ELSE IF fault = "parse_textract_response"
       THEN h' = HFail("error", {"get_item", "get_document_analysis",
                                 "parse_textract_response"})
       ELSE LET job_data == table[job_id]
                blocks == HandlerRetrieve(job_id, None)
            IN h' = [h EXCEPT !.pc = "put",
                              !.job_data = job_data,
                              !.body = HandlerBody(job_data, job_id, blocks, clock),
                              !.output_key = HandlerOutputKey(job_data),
                              !.calls = {"get_item", "get_document_analysis",
                                         "parse_textract_response"}]

\* On a SUCCEEDED record (lines 45-88): look the job up, retrieve its
\* blocks, extract.  The calls only read, so they are one step; each of
\* them may raise, and the except clause (lines 119-121) takes over.
HFetch(job_id, fault) ==
    /\ table' = table
    /\ s3' = s3
    /\ IF fault = "get_item"
       THEN h' = HFail("error", {"get_item"})
       ELSE IF table[job_id] = None
       THEN h' = HFail("orphan", {"get_item"})
       ELSE IF fault = "get_document_analysis" \/ job_id \in expired
       THEN h' = HFail("error", {"get_item", "get_document_analysis"})
       ELSE IF fault = "parse_textract_response"
       THEN h' = HFail("error", {"get_item", "get_document_analysis",
                                 "parse_textract_response"})
       ELSE LET job_data == table[job_id]
                blocks == HandlerRetrieve(job_id, None)
            IN h' = [h EXCEPT !.pc = "put",
                              !.job_data = job_data,
                              !.body = HandlerBody(job_data, job_id, blocks, clock),
                              !.output_key = HandlerOutputKey(job_data),
                              !.calls = {"get_item", "get_document_analysis",
                                         "parse_textract_response"}]

\* One record of the batch, up to its first write (lines 19-88).
HProcess ==
    /\ h.pc = "loop"
    /\ h.idx <= Len(h.batch)
    /\ LET p == ParseEnvelope(h.batch[h.idx])
       IN IF ~p.ok
          THEN /\ h' = HFail("malformed", {})
               /\ table' = table
               /\ s3' = s3
          ELSE IF p.Status # "SUCCEEDED"
          THEN \E fault \in BOOLEAN : HMarkFailed(p.JobId, p.Status, fault)
          ELSE \E fault \in {"none", "get_item", "get_document_analysis",
                             "parse_textract_response"} :
                  HFetch(p.JobId, fault)
    /\ UNCHANGED <<doc, run, source, svc, expired, queue, clock, launch, r>>

\* HPut trying put_object again when it raises, instead of giving the
\* record up.
HPut_Retry ==
    /\ h.pc = "put"
    /\ \E fault \in BOOLEAN :
          IF fault
          THEN /\ h' = [h EXCEPT !.calls = @ \cup {"put_object"}]
               /\ s3' = s3
          ELSE /\ h' = [h EXCEPT !.pc = "update", !.calls = @ \cup {"put_object"}]
               /\ s3' = PutObject(s3, OUTPUT_BUCKET, h.output_key, h.body)
    /\ UNCHANGED <<doc, run, source, table, svc, expired, queue, clock, launch, r>>

\* s3_client.put_object (lines 95-102).
HPut ==
    /\ h.pc = "put"
    /\ \E fault \in BOOLEAN :
          IF fault
          THEN /\ h' = HFail("error", h.calls \cup {"put_object"})
               /\ s3' = s3
          ELSE /\ h' = [h EXCEPT !.pc = "update", !.calls = @ \cup {"put_object"}]
               /\ s3' = PutObject(s3, OUTPUT_BUCKET, h.output_key, h.body)
    /\ UNCHANGED <<doc, run, source, table, svc, expired, queue, clock, launch, r>>

\* HComplete with processed_count += 1 ahead of update_item: a record whose
\* update raises is counted as processed and as failed.
HComplete_CountFirst(job_id, output_key, fault) ==
    IF fault
    THEN /\ h' = [HFail("error", h.calls \cup {"update_item"})
                    EXCEPT !.processed_count = h.processed_count + 1]
         /\ table' = table
    ELSE /\ h' = [HFail("processed", h.calls \cup {"update_item"})
                    EXCEPT !.failed_count = h.failed_count,
                           !.processed_count = h.processed_count + 1]
         /\ table' = UpdateItem(table, job_id,
                        [Status |-> "COMPLETED", OutputKey |-> output_key,
                         CompletedTime |-> clock])

\* The item update that completes the job (lines 105-117).
HComplete(job_id, output_key, fault) ==
    IF fault
    THEN /\ h' = HFail("error", h.calls \cup {"update_item"})
         /\ table' = table
    ELSE /\ h' = [HFail("processed", h.calls \cup {"update_item"})
                    EXCEPT !.failed_count = h.failed_count,
                           !.processed_count = h.processed_count + 1]
         /\ table' = UpdateItem(table, job_id,
                        [Status |-> "COMPLETED", OutputKey |-> output_key,
                         CompletedTime |-> clock])

HUpdate ==
    /\ h.pc = "update"
    /\ \E fault \in BOOLEAN : HComplete(h.job_data.JobId, h.output_key, fault)
    /\ UNCHANGED <<doc, run, source, s3, svc, expired, queue, clock, launch, r>>

\* The loop is over: the counts are returned (lines 123-129) and the
\* invocation ends.
HReturn ==
    /\ h.pc = "loop"
    /\ h.idx > Len(h.batch)
    /\ h' = HIdle
    /\ UNCHANGED <<doc, run, source, table, s3, svc, expired, queue, clock, launch, r>>

\* The invocation dies (timeout, out of memory) wherever it is.
HCrash ==
    /\ h.pc \in {"loop", "put", "update"}
    /\ h' = HIdle
    /\ UNCHANGED <<doc, run, source, table, s3, svc, expired, queue, clock, launch, r>>

\* ------------------------------------------------------------------------
\* Recovery script (scripts/recover_failed_notifications.py)
\* ------------------------------------------------------------------------

RECURSIVE ScanItems(_, _)
\* table.scan with the filter Status = IN_PROGRESS, all pages (lines
\* 159-175): the matching items, in the table's order.
ScanItems(tbl, ids) ==
    IF ids = <<>> THEN <<>>
    ELSE (IF tbl[Head(ids)] # None /\ "Status" \in DOMAIN tbl[Head(ids)]
             /\ tbl[Head(ids)].Status = "IN_PROGRESS"
          THEN <<tbl[Head(ids)]>> ELSE <<>>)
         \o ScanItems(tbl, Tail(ids))

RECURSIVE RecoverRetrieve(_, _)
\* Lines 89-95: the first page's blocks, then every page a NextToken
\* leads to.
RecoverRetrieve(job_id, result) ==
    result.Blocks \o
       (IF "NextToken" \in DOMAIN result
        THEN RecoverRetrieve(job_id, GetDocumentAnalysis(job_id, result.NextToken))
        ELSE <<>>)

\* Lines 98-109.
RecoverBody(job_data, job_id, blocks, now) ==
    SetAttrs(recover_parse_textract_response(blocks),
        [metadata |-> [source_file |-> job_data.SourceKey,
                       bucket |-> job_data.Bucket,
                       batch |-> job_data.BatchPrefix,
                       job_id |-> job_id,
                       processed_time |-> now,
                       total_blocks |-> Len(blocks),
                       recovered |-> TRUE]])

\* Lines 112-113.
RecoverOutputKey(job_data) ==
    <<"processed", "/">> \o job_data.BatchPrefix
        \o ReplacePdf(LastSegment(job_data.SourceKey))

RIdle ==
    [pc |-> "idle", jobs |-> <<>>, idx |-> 0, recovered |-> 0, failed |-> 0,
     body |-> None, output_key |-> None, out |-> <<>>, calls |-> {}]

\* main() up to the loop (lines 157-195): the scan, then the operator's
\* answer to the confirmation prompt.
RScanWith(response) ==
    /\ r.pc = "idle"
    /\ LET jobs == ScanItems(table, JobIdSeq)
       IN IF jobs = <<>>
          THEN r' = RIdle
          ELSE r' = IF response # "yes"
                    THEN RIdle
                    ELSE [RIdle EXCEPT !.pc = "loop", !.jobs = jobs, !.idx = 1]
    /\ UNCHANGED <<doc, run, source, table, s3, svc, expired, queue, clock, launch, h>>

RScan == \E response \in {"yes", "no"} : RScanWith(response)

\* recover_job returned: recovered += 1 or failed += 1 (lines 199-202),
\* and on to the next job.
RNext(outcome, calls) ==
    [r EXCEPT !.pc = "loop", !.idx = @ + 1,
              !.recovered = IF outcome = "recovered" THEN @ + 1 ELSE @,
              !.failed = IF outcome = "recovered" THEN @ ELSE @ + 1,
              !.body = None, !.output_key = None,
              !.out = Append(@, outcome), !.calls = calls]

\* RCheckJob skipping only the jobs that still run: a job that failed in
\* the service is recovered like a succeeded one.
RCheckJob_UnlessRunning(job_data, fault) ==
    LET job_id == job_data.JobId
    IN /\ table' = table
       /\ s3' = s3
       /\ IF job_id \in expired
          THEN r' = [r EXCEPT !.pc = "expire", !.calls = {"get_document_analysis"}]
          ELSE IF fault
          THEN r' = RNext("error", {"get_document_analysis"})
          ELSE LET result == GetDocumentAnalysis(job_id, None)
               IN IF result.JobStatus = "IN_PROGRESS"
                  THEN r' = RNext("skipped", {"get_document_analysis"})
                  ELSE LET blocks == RecoverRetrieve(job_id, result)
                       IN r' = [r EXCEPT
                                  !.pc = "put",
                                  !.body = RecoverBody(job_data, job_id, blocks, clock),
                                  !.output_key = RecoverOutputKey(job_data),
                                  !.calls = {"get_document_analysis",
                                             "parse_textract_response"}]

\* RCheckJob with InvalidJobIdException caught by the general except
\* clause: an expired job is skipped like any error.
RCheckJob_ExpiryIsError(job_data, fault) ==
    LET job_id == job_data.JobId
    IN /\ table' = table
       /\ s3' = s3
       /\ IF fault \/ job_id \in expired
          THEN r' = RNext("error", {"get_document_analysis"})
          ELSE LET result == GetDocumentAnalysis(job_id, None)
               IN IF result.JobStatus # "SUCCEEDED"
                  THEN r' = RNext("skipped", {"get_document_analysis"})
                  ELSE LET blocks == RecoverRetrieve(job_id, result)
                       IN r' = [r EXCEPT
                                  !.pc = "put",
                                  !.body = RecoverBody(job_data, job_id, blocks, clock),
                                  !.output_key = RecoverOutputKey(job_data),
                                  !.calls = {"get_document_analysis",
                                             "parse_textract_response"}]

\* recover_job up to its first write (lines 73-113): the status query,
\* and for a succeeded job the retrieval and the extraction.
RCheckJob(job_data, fault) ==
    LET job_id == job_data.JobId
    IN /\ table' = table
       /\ s3' = s3
       /\ IF job_id \in expired
          THEN r' = [r EXCEPT !.pc = "expire", !.calls = {"get_document_analysis"}]
          ELSE IF fault
          THEN r' = RNext("error", {"get_document_analysis"})
          ELSE LET result == GetDocumentAnalysis(job_id, None)
               IN IF result.JobStatus # "SUCCEEDED"
                  THEN r' = RNext("skipped", {"get_document_analysis"})
                  ELSE LET blocks == RecoverRetrieve(job_id, result)
                       IN r' = [r EXCEPT
                                  !.pc = "put",
                                  !.body = RecoverBody(job_data, job_id, blocks, clock),
                                  !.output_key = RecoverOutputKey(job_data),
                                  !.calls = {"get_document_analysis",
                                             "parse_textract_response"}]

RCheckWith(fault) ==
    /\ r.pc = "loop"
    /\ r.idx <= Len(r.jobs)
    /\ RCheckJob(r.jobs[r.idx], fault)
    /\ UNCHANGED <<doc, run, source, svc, expired, queue, clock, launch, h>>

RCheck == \E fault \in BOOLEAN : RCheckWith(fault)

\* RMarkExpired reusing the completion update: the expired job is given
\* an OutputKey it has no object for.
RMarkExpired_WithOutput(job_id, fault) ==
    IF fault
    THEN /\ r' = RIdle
         /\ table' = table
    ELSE /\ r' = RNext("expired", r.calls \cup {"update_item"})
         /\ table' = UpdateItem(table, job_id,
                        [Status |-> "FAILED_EXPIRED",
                         OutputKey |-> RecoverOutputKey(r.jobs[r.idx])])

\* The InvalidJobIdException handler (lines 137-146).  When the update
\* raises too, the exception leaves recover_job and ends the script.
RMarkExpired(job_id, fault) ==
    IF fault
    THEN /\ r' = RIdle
         /\ table' = table
    ELSE /\ r' = RNext("expired", r.calls \cup {"update_item"})
         /\ table' = UpdateItem(table, job_id, [Status |-> "FAILED_EXPIRED"])

RExpireWith(fault) ==
    /\ r.pc = "expire"
    /\ RMarkExpired(r.jobs[r.idx].JobId, fault)
    /\ UNCHANGED <<doc, run, source, s3, svc, expired, queue, clock, launch, h>>

RExpire == \E fault \in BOOLEAN : RExpireWith(fault)

\* s3.put_object (lines 115-120).
RPutWith(fault) ==
    /\ r.pc = "put"
    /\ IF fault
       THEN /\ r' = RNext("error", r.calls \cup {"put_object"})
            /\ s3' = s3
       ELSE /\ r' = [r EXCEPT !.pc = "update", !.calls = @ \cup {"put_object"}]
            /\ s3' = PutObject(s3, r.jobs[r.idx].Bucket, r.output_key, r.body)
    /\ UNCHANGED <<doc, run, source, table, svc, expired, queue, clock, launch, h>>

RPut == \E fault \in BOOLEAN : RPutWith(fault)

\* The item update that completes the job (lines 123-135).
RComplete(job_id, output_key, fault) ==
    IF fault
    THEN /\ r' = RNext("error", r.calls \cup {"update_item"})
         /\ table' = table
    ELSE /\ r' = RNext("recovered", r.calls \cup {"update_item"})
         /\ table' = UpdateItem(table, job_id,
                        [Status |-> "COMPLETED", OutputKey |-> output_key,
                         CompletedTime |-> clock])

RUpdateWith(fault) ==
    /\ r.pc = "update"
    /\ RComplete(r.jobs[r.idx].JobId, r.output_key, fault)
    /\ UNCHANGED <<doc, run, source, s3, svc, expired, queue, clock, launch, h>>

RUpdate == \E fault \in BOOLEAN : RUpdateWith(fault)

\* The loop is over: the totals are printed (lines 208-215) and the
\* script ends.
RReturn ==
    /\ r.pc = "loop"
    /\ r.idx > Len(r.jobs)
    /\ r' = RIdle
    /\ UNCHANGED <<doc, run, source, table, s3, svc, expired, queue, clock, launch, h>>

\* The script is interrupted wherever it is.
RCrash ==
    /\ r.pc \in {"loop", "expire", "put", "update"}
    /\ r' = RIdle
    /\ UNCHANGED <<doc, run, source, table, s3, svc, expired, queue, clock, launch, h>>

\* ------------------------------------------------------------------------
\* Specification
\* ------------------------------------------------------------------------

\* The pipeline before the launcher has run on the listed keys.
SystemInit(keys) ==
    /\ source = keys
    /\ table = [j \in JobIds |-> None]
    /\ s3 = [loc \in {} |-> None]
    /\ svc = [j \in JobIds |-> "NONE"]
    /\ expired = {}
    /\ queue = {}
    /\ clock = 0
    /\ launch = None
    /\ h = HIdle
    /\ r = RIdle

\* The pipeline variables, which a study of one loop or of the extractor
\* leaves alone.
system == <<source, table, s3, svc, expired, queue, clock, launch, h, r>>

InitWith(keys) ==
    /\ SystemInit(keys)
    /\ doc = None
    /\ run = None

Init == InitWith(OneDocument)

Next ==
    \/ Launch
    \/ ServiceFinish
    \/ ServiceExpire
    \/ Tick
    \/ HStart
    \/ HProcess
    \/ HPut
    \/ HUpdate
    \/ HReturn
    \/ HCrash
    \/ RScan
    \/ RCheck
    \/ RExpire
    \/ RPut
    \/ RUpdate
    \/ RReturn
    \/ RCrash

Spec == Init /\ [][Next]_vars

\* The recovery script keeps being run to its end: the operator confirms,
\* and no call fails for ever.  Every job finishes in the service, and a
\* job that failed there ages out of it (a succeeded one may, or may not).
RecoveryFairness ==
    /\ SF_vars(RScanWith("yes"))
    /\ SF_vars(RCheckWith(FALSE))
    /\ SF_vars(RExpireWith(FALSE))
    /\ SF_vars(RPutWith(FALSE))
    /\ SF_vars(RUpdateWith(FALSE))
    /\ WF_vars(RReturn)
    /\ \A j \in JobIds :
          /\ WF_vars(ServiceFinishOf(j))
          /\ WF_vars(svc[j] = "FAILED" /\ ServiceExpireOf(j))

\* The system when no completion message is ever delivered: the launcher,
\* the service and the recovery script, with its faults and crashes.
RecoveryNext ==
    \/ Launch
    \/ ServiceFinish
    \/ ServiceExpire
    \/ Tick
    \/ RScan
    \/ RCheck
    \/ RExpire
    \/ RPut
    \/ RUpdate
    \/ RReturn
    \/ RCrash

LiveSpec == Init /\ [][RecoveryNext]_vars /\ RecoveryFairness

\* ------------------------------------------------------------------------
\* Shorthands of the properties
\* ------------------------------------------------------------------------

TerminalStatuses == {"COMPLETED", "FAILED_FAILED", "FAILED_EXPIRED"}

HasItem(j) == table[j] # None

\* The record the handler is about to process, parsed.
HPending == h.pc = "loop" /\ h.idx <= Len(h.batch)
HParsed == ParseEnvelope(h.batch[h.idx])

\* The handler is at its return statement.
HAtReturn == h.pc = "loop" /\ h.idx > Len(h.batch)

\* The job the recovery script is working on.
RJob == r.jobs[r.idx]

\* The outcome of the record processed last.
LastOut(p) == IF p.out = <<>> THEN "" ELSE p.out[Len(p.out)]

\* ------------------------------------------------------------------------
\* C1..C10
\* ------------------------------------------------------------------------

\* C1: terminal states are absorbing.  No step changes the status of a
\* record that is COMPLETED, FAILED_<status> or FAILED_EXPIRED: the status
\* of an existing record changes only from IN_PROGRESS, and then to a
\* terminal status.
C1_TerminalAbsorbing ==
    [][\A j \in JobIds :
          (HasItem(j) /\ table'[j] # table[j])
             => /\ table'[j] # None
                /\ table'[j].Status # table[j].Status
                      => /\ table[j].Status = "IN_PROGRESS"
                         /\ table'[j].Status \in TerminalStatuses]_vars

\* C2: duplicate delivery is idempotent.  When the handler takes up a
\* SUCCEEDED record whose job is already in a terminal state, it gives the
\* record up at once: the item and the bucket stay as they are, and neither
\* the analysis service nor the extractor nor put_object is called.
C2_DuplicateIsNoOp ==
    [][(/\ HPending
        /\ HParsed.ok
        /\ HParsed.Status = "SUCCEEDED"
        /\ HasItem(HParsed.JobId)
        /\ table[HParsed.JobId].Status \in TerminalStatuses
        /\ h' # h)
          => /\ h'.pc \in {"loop", "idle"}
             /\ h'.calls \subseteq {"get_item"}
             /\ table' = table
             /\ s3' = s3]_vars

\* C3: race tolerance.  When a status update of the handler or of the
\* recovery script reaches a record that the other one has moved out of
\* IN_PROGRESS since it was read, the update has no effect.
C3_RaceTolerated ==
    [][/\ (/\ r.pc \in {"expire", "update"}
           /\ r' # r
           /\ HasItem(RJob.JobId)
           /\ table[RJob.JobId].Status # "IN_PROGRESS")
             => table' = table
       /\ (/\ h.pc = "update"
           /\ h' # h
           /\ h.job_data.Status = "IN_PROGRESS"
           /\ HasItem(h.job_data.JobId)
           /\ table[h.job_data.JobId].Status # "IN_PROGRESS")
             => table' = table]_vars

\* C4: the object the recovery script writes for a succeeded job is the one
\* the handler would write for the same item and blocks: same bucket, same
\* key, same raw_text, key_value_pairs and tables.
C4_SameOutputAsHandler ==
    r.pc \in {"put", "update"}
       => LET expect == HandlerBody(RJob, RJob.JobId,
                                    HandlerRetrieve(RJob.JobId, None), clock)
          IN /\ RJob.Bucket = OUTPUT_BUCKET
             /\ r.output_key = HandlerOutputKey(RJob)
             /\ r.body.raw_text = expect.raw_text
             /\ r.body.key_value_pairs = expect.key_value_pairs
             /\ r.body.tables = expect.tables

\* C5: a record whose status is not SUCCEEDED.  The handler issues the one
\* update that sets the item's Status to FAILED_<status> (and nothing else:
\* no get_item, no service call, no extraction, no put_object), counts the
\* record as failed and goes on to the next record.  The item holds
\* FAILED_<status> once the step is over, unless update_item itself raised.
C5_FailedStatus ==
    [][(/\ HPending
        /\ HParsed.ok
        /\ HParsed.Status # "SUCCEEDED"
        /\ h' # h
        /\ h' # HIdle)
          => /\ h'.pc = "loop"
             /\ h'.idx = h.idx + 1
             /\ h'.failed_count = h.failed_count + 1
             /\ h'.processed_count = h.processed_count
             /\ h'.calls = {"update_item"}
             /\ s3' = s3
             /\ \/ /\ LastOut(h') = "failed_status"
                   /\ table' = [table EXCEPT ![HParsed.JobId] = table'[HParsed.JobId]]
                   /\ table'[HParsed.JobId] # None
                   /\ table'[HParsed.JobId].Status = "FAILED_" \o HParsed.Status
                \/ /\ LastOut(h') = "error"
                   /\ table' = table]_vars

\* C5 happens: a FAILED record has been handled and the item says so.
C5_Witness ==
    /\ LastOut(h) = "failed_status"
    /\ h.calls = {"update_item"}
    /\ h.failed_count = 1
    /\ HasItem("job1")
    /\ table["job1"].Status = "FAILED_FAILED"

\* C6: an orphaned notification.  For a SUCCEEDED record whose job id has
\* no item, the handler counts one failure and goes on: nothing is
\* retrieved, nothing is written, and the table stays as it is (no item is
\* created).
C6_Orphan ==
    [][(/\ HPending
        /\ HParsed.ok
        /\ HParsed.Status = "SUCCEEDED"
        /\ ~HasItem(HParsed.JobId)
        /\ h' # h
        /\ h' # HIdle)
          => /\ h'.pc = "loop"
             /\ h'.idx = h.idx + 1
             /\ h'.failed_count = h.failed_count + 1
             /\ h'.processed_count = h.processed_count
             /\ h'.calls = {"get_item"}
             /\ table' = table
             /\ s3' = s3]_vars

\* C6 happens: the record handled last was an orphan, and its job still
\* has no item.
C6_Witness ==
    /\ LastOut(h) = "orphan"
    /\ h.failed_count = 1
    /\ ParseEnvelope(h.batch[h.idx - 1]).Status = "SUCCEEDED"
    /\ ~HasItem(ParseEnvelope(h.batch[h.idx - 1]).JobId)

\* The outcomes a record of the batch can have, by what the record is.
OutcomesOf(record) ==
    LET p == ParseEnvelope(record)
    IN IF ~p.ok THEN {"malformed"}
       ELSE IF p.Status # "SUCCEEDED" THEN {"failed_status", "error"}
       ELSE {"processed", "orphan", "error"}

\* C7: per-envelope isolation.  Whatever happened to the records before it,
\* every record of the batch gets its turn and an outcome of its own: while
\* the invocation runs, the records before idx have one outcome each, the
\* one its own content allows, and the two counts add up to their number,
\* so that the return, which needs idx past the batch, comes only after
\* every record; and the update that completes a job sets it COMPLETED and
\* counts it as processed, however many records failed before.  With one malformed and one processed record
\* the counts at the return are processed = 1 and failed = 1.
C7_Isolation ==
    /\ [](h.pc # "idle" =>
            /\ h.idx <= Len(h.batch) + 1
            /\ Len(h.out) = h.idx - 1
            /\ \A i \in 1..Len(h.out) : h.out[i] \in OutcomesOf(h.batch[i])
            /\ h.processed_count =
                  Cardinality({i \in 1..Len(h.out) : h.out[i] = "processed"})
            /\ h.failed_count =
                  Cardinality({i \in 1..Len(h.out) : h.out[i] # "processed"}))
    /\ [][(h.pc = "update" /\ LastOut(h') = "processed" /\ h' # h)
             => /\ table'[h.job_data.JobId].Status = "COMPLETED"
                /\ h'.processed_count = h.processed_count + 1
                /\ h'.failed_count = h.failed_count]_vars

\* C7 happens: the handler is at its return after a malformed record
\* followed by a record it processed, with the job COMPLETED.
C7_Witness ==
    /\ HAtReturn
    /\ h.out = <<"malformed", "processed">>
    /\ h.processed_count = 1
    /\ h.failed_count = 1
    /\ table["job1"].Status = "COMPLETED"

\* C8: expiry in recovery.  When the status query of an IN_PROGRESS item
\* raises InvalidJobIdException, the script's update sets the item's Status
\* to FAILED_EXPIRED and nothing else: the item has no OutputKey, nothing is
\* put in the bucket, and the job counts as failed, not as recovered.
C8_Expiry ==
    [][(/\ r.pc = "expire"
        /\ HasItem(RJob.JobId)
        /\ table[RJob.JobId].Status = "IN_PROGRESS"
        /\ r' # r
        /\ r' # RIdle)
          => /\ table'[RJob.JobId] =
                   SetAttrs(table[RJob.JobId], [Status |-> "FAILED_EXPIRED"])
             /\ "OutputKey" \notin DOMAIN table'[RJob.JobId]
             /\ s3' = s3
             /\ r'.recovered = r.recovered
             /\ r'.failed = r.failed + 1
             /\ "put_object" \notin r'.calls]_vars

\* C8 happens: the script has marked an item expired, and the item has no
\* OutputKey.
C8_Witness ==
    /\ LastOut(r) = "expired"
    /\ r.recovered = 0
    /\ table["job1"].Status = "FAILED_EXPIRED"
    /\ "OutputKey" \notin DOMAIN table["job1"]

\* C9: recovery leaves unfinished jobs alone.  When the service still knows
\* the job and reports a status other than SUCCEEDED, the script goes on to
\* the next item with no write pending: the table and the bucket stay as
\* they are.
C9_UnfinishedUntouched ==
    [][(/\ r.pc = "loop"
        /\ r.idx <= Len(r.jobs)
        /\ RJob.JobId \notin expired
        /\ svc[RJob.JobId] # "SUCCEEDED"
        /\ r' # r
        /\ r' # RIdle)
          => /\ r'.pc = "loop"
             /\ r'.idx = r.idx + 1
             /\ r'.calls = {"get_document_analysis"}
             /\ r'.recovered = r.recovered
             /\ table' = table
             /\ s3' = s3]_vars

\* C9 happens: the script has skipped a job that failed in the service,
\* and its item is still IN_PROGRESS.
C9_Witness ==
    /\ LastOut(r) = "skipped"
    /\ svc["job1"] = "FAILED"
    /\ table["job1"].Status = "IN_PROGRESS"

\* C10: every job reaches a terminal state.  With the recovery script run
\* again and again, every item created IN_PROGRESS becomes COMPLETED or
\* FAILED_<reason>, whether or not a completion message is ever delivered;
\* and the item of a job that succeeded becomes COMPLETED unless the job
\* ages out of the service first.
C10_EventuallyTerminal ==
    \A j \in JobIds :
       /\ (HasItem(j) /\ table[j].Status = "IN_PROGRESS")
             ~> (HasItem(j) /\ table[j].Status \in TerminalStatuses)
       /\ (HasItem(j) /\ table[j].Status = "IN_PROGRESS" /\ svc[j] = "SUCCEEDED")
             ~> (j \in expired \/ (HasItem(j) /\ table[j].Status = "COMPLETED"))

\* C10 happens: no completion message was ever published, and the script
\* has recovered the job.
C10_Witness ==
    /\ queue = {}
    /\ LastOut(r) = "recovered"
    /\ table["job1"].Status = "COMPLETED"

\* ------------------------------------------------------------------------
\* C11.  OutputKey is set only on successful completion: in every state of
\* the job table, an item that carries an OutputKey has Status COMPLETED.
\* ------------------------------------------------------------------------
C11_OutputKeyOnlyCompleted ==
    \A j \in JobIds :
       (HasItem(j) /\ "OutputKey" \in DOMAIN table[j])
          => table[j].Status = "COMPLETED"

\* The recovery loop is over: main prints its totals (lines 204-214).
RAtReturn == r.pc = "loop" /\ r.idx > Len(r.jobs)

\* How many of the records of the pass ended with one of these outcomes.
CountOut(p, tags) == Cardinality({i \in 1..Len(p.out) : p.out[i] \in tags})

\* ------------------------------------------------------------------------
\* C12.  When a recovery pass ends, every scanned record has been processed
\* exactly once, in scan order, and the pass reports three counts that sum
\* to the number of scanned records: recovered, failed (an error, or an
\* expired job) and skipped (records left untouched); the reported failed
\* count holds no skipped record.
\* ------------------------------------------------------------------------
C12_ThreeCounts ==
    RAtReturn =>
       /\ Len(r.out) = Len(r.jobs)
       /\ r.recovered = CountOut(r, {"recovered"})
       /\ r.failed = CountOut(r, {"error", "expired"})
       /\ r.recovered + r.failed + CountOut(r, {"skipped"}) = Len(r.jobs)

\* ------------------------------------------------------------------------
\* C13.  A launcher run isolates per-document failures: every job the
\* service accepted has exactly one item, IN_PROGRESS and keyed by the
\* returned job id, and no other item is created; jobs_started plus
\* jobs_failed is the number of PDF documents, with one failure entry per
\* failed document.
\* ------------------------------------------------------------------------
C13_LauncherIsolation ==
    [][(launch = None /\ launch' # None) =>
          /\ \A j \in JobIds :
                (svc[j] = "NONE" /\ svc'[j] = "IN_PROGRESS")
                   <=> (table[j] = None /\ table'[j] # None
                        /\ table'[j].JobId = j
                        /\ table'[j].Status = "IN_PROGRESS")
          /\ launch'.jobs_started + launch'.jobs_failed = Len(PdfFiles(source))
          /\ launch'.jobs_started
                = Cardinality({j \in JobIds : table[j] = None /\ table'[j] # None})
          /\ Cardinality(launch'.failed_jobs) = launch'.jobs_failed]_vars

\* ------------------------------------------------------------------------
\* The retrieval loops on their own, request by request
\* (lambda_result_processor.py lines 55-73, recover_failed_notifications.py
\* lines 78-95)
\* ------------------------------------------------------------------------

\* Pages a result may be delivered in.
MaxPages == 3

\* The blocks a page may hold, and the pages: up to two blocks each.
PageBlock == {[Id |-> "b1"], [Id |-> "b2"]}
Pages == {<<>>} \cup {<<b>> : b \in PageBlock}
            \cup {<<a, b>> : a \in PageBlock, b \in PageBlock}
Deliveries == UNION {[1..n -> Pages] : n \in 1..MaxPages}

\* get_document_analysis on a succeeded job delivered as these pages: the
\* first page without NextToken, else the page the token names.  Every
\* page but the last carries the token of the next.
AnalysisPage(pages, token) ==
    LET page == IF token = None THEN 1 ELSE token.page
        base == [JobStatus |-> "SUCCEEDED", Blocks |-> pages[page]]
    IN IF page < Len(pages)
       THEN SetAttrs(base, [NextToken |-> [page |-> page + 1]])
       ELSE base

\* A loop before its first request.
LoopStart(loop) ==
    [loop |-> loop, pc |-> "request", blocks |-> <<>>, next_token |-> None,
     result |-> None, requests |-> <<>>]

\* HandlerPage leaving the loop after the first response.
HandlerPage_FirstOnly(result) ==
    [run EXCEPT !.blocks = @ \o result.Blocks,
                !.requests = Append(@, run.next_token),
                !.pc = "done"]

\* Lines 68-73 of the handler: blocks.extend(result['Blocks']), then the
\* token is kept, or the loop is left.
HandlerPage(result) ==
    [run EXCEPT !.blocks = @ \o result.Blocks,
                !.requests = Append(@, run.next_token),
                !.next_token = IF "NextToken" \in DOMAIN result
                               THEN result.NextToken ELSE @,
                !.pc = IF "NextToken" \in DOMAIN result THEN "request" ELSE "done"]

\* One turn of the handler's 'while True' (lines 59-73): the request goes
\* with the token when there is one (a token is a non-empty string), and
\* may raise.
HandlerRequest ==
    /\ run # None
    /\ run.loop = "handler"
    /\ run.pc = "request"
    /\ \E fault \in BOOLEAN :
          IF fault
          THEN run' = [run EXCEPT !.pc = "raised"]
          ELSE run' = HandlerPage(AnalysisPage(doc, run.next_token))
    /\ UNCHANGED <<doc, system>>

\* The request of recover_job: the status query (line 78) first, whose
\* blocks start the list (line 89), then one request per NextToken of the
\* response before (lines 90-95).
RecoverRequest ==
    /\ run # None
    /\ run.loop = "recover"
    /\ run.pc = "request"
    /\ \E fault \in BOOLEAN :
          IF fault
          THEN run' = [run EXCEPT !.pc = "raised"]
          ELSE LET token == IF run.result = None THEN None
                            ELSE run.result.NextToken
                   result == AnalysisPage(doc, token)
               IN run' = [run EXCEPT
                            !.blocks = @ \o result.Blocks,
                            !.requests = Append(@, token),
                            !.result = result,
                            !.pc = IF "NextToken" \in DOMAIN result
                                   THEN "request" ELSE "done"]
    /\ UNCHANGED <<doc, system>>

RetrieveInit ==
    /\ SystemInit(OneDocument)
    /\ doc \in Deliveries
    /\ run \in {LoopStart("handler"), LoopStart("recover")}

RetrieveNext == HandlerRequest \/ RecoverRequest

RetrieveSpec == RetrieveInit /\ [][RetrieveNext]_vars

RECURSIVE AllBlocks(_)
\* The pages' blocks, page after page.
AllBlocks(pages) ==
    IF pages = <<>> THEN <<>> ELSE Head(pages) \o AllBlocks(Tail(pages))

\* ------------------------------------------------------------------------
\* C14.  For a result delivered in N >= 1 pages, a retrieval loop that ends
\* has issued exactly N requests, the first without token and the i-th
\* with the token the page before carried, and returns the blocks of all
\* pages in delivery order, none skipped, repeated or truncated; while it
\* runs it holds exactly the blocks of the pages requested so far.
\* ------------------------------------------------------------------------
C14_RetrievesEverything ==
    /\ Len(run.requests) <= Len(doc)
    /\ \A i \in 1..Len(run.requests) :
          run.requests[i] = IF i = 1 THEN None
                            ELSE AnalysisPage(doc, run.requests[i - 1]).NextToken
    /\ run.blocks = AllBlocks(SubSeq(doc, 1, Len(run.requests)))
    /\ run.pc = "done" =>
          /\ Len(run.requests) = Len(doc)
          /\ run.blocks = AllBlocks(doc)

\* C14 happens: three pages, the second one empty, retrieved by the
\* recovery script.
C14_Witness ==
    /\ run.loop = "recover"
    /\ run.pc = "done"
    /\ Len(doc) = MaxPages
    /\ doc[2] = <<>>
    /\ doc[1] # doc[3]
    /\ doc[1] # <<>>

\* ------------------------------------------------------------------------
\* The extractor on its own (lambda_result_processor.py lines 132-230)
\* ------------------------------------------------------------------------

\* Ids a KEY block lists as children, and ids a TABLE block lists as cells.
MaxChildren == 2
MaxCells == 3

\* The sequences without repetition of at most n elements of S.
Arrangements(S, n) ==
    UNION {{s \in [1..k -> S] : \A i, j \in 1..k : i # j => s[i] # s[j]}
             : k \in 0..n}

\* The blocks every studied collection holds after its LINE, KEY and TABLE
\* blocks: the words, the value block of the key, and the cells c11 (1,1),
\* c12 (1,2), c21 (2,1) and c11b, a second cell at (1,1).  No block has the
\* id "gone".
IndexedBlocks ==
    << Word("w1", "Invoice"), Word("w2", "Date"), Word("w3", "2024-01-01"),
       [Id |-> "v1", BlockType |-> "KEY_VALUE_SET", Confidence |-> 94,
        EntityTypes |-> {"VALUE"},
        Relationships |-> <<[Type |-> "CHILD", Ids |-> <<"w3">>]>>],
       Cell("c11", 1, 1, <<"wa">>), Cell("c12", 1, 2, <<"wb">>),
       Cell("c21", 2, 1, <<"wc">>), Cell("c11b", 1, 1, <<"wc", "gone">>),
       Word("wa", "A"), Word("wb", "B"), Word("wc", "C") >>

LineBlocks ==
    { [Id |-> "l1", BlockType |-> "LINE", Confidence |-> 99,
       Text |-> <<"Invoice", " ", "Date">>],
      [Id |-> "l2", BlockType |-> "LINE", Confidence |-> 70,
       Text |-> <<"Total">>] }

\* A KEY block: its VALUE relationships, when it has any, come first.
KeyBlock(children, values) ==
    [Id |-> "k1", BlockType |-> "KEY_VALUE_SET", Confidence |-> 95,
     EntityTypes |-> {"KEY"},
     Relationships |->
        [i \in 1..Len(values) |-> [Type |-> "VALUE", Ids |-> values[i]]]
        \o <<[Type |-> "CHILD", Ids |-> children]>>]

KeyBlocks ==
    { KeyBlock(children, values) :
         children \in UNION {[1..k -> {"w1", "w2", "gone"}] : k \in 0..MaxChildren},
         values \in {<<>>, << <<"v1">> >>, << <<"gone">> >>, << <<"gone", "v1">> >>,
                     << <<"v1", "gone">> >>, << <<>>, <<"v1">> >>} }
    \cup { [Id |-> "k1", BlockType |-> "KEY_VALUE_SET", Confidence |-> 95,
            EntityTypes |-> {"KEY"}] }

TableBlocks ==
    { [Id |-> "t1", BlockType |-> "TABLE", Confidence |-> 88,
       Relationships |-> <<[Type |-> "CHILD", Ids |-> cells]>>] :
         cells \in Arrangements({"c11", "c12", "c21", "c11b", "gone"}, MaxCells) }
    \cup { [Id |-> "t1", BlockType |-> "TABLE", Confidence |-> 88],
           [Id |-> "t1", BlockType |-> "TABLE", Confidence |-> 88,
            Relationships |-> <<[Type |-> "MERGED_CELL", Ids |-> <<"c11">>]>>] }

\* A collection in delivery order: the page, the first line, the key, the
\* other lines, the table, then the blocks they refer to.
Collection(lines, key, tbl) ==
    <<[Id |-> "p1", BlockType |-> "PAGE"]>>
       \o (IF lines = <<>> THEN <<>> ELSE <<Head(lines)>>)
       \o <<key>>
       \o (IF lines = <<>> THEN <<>> ELSE Tail(lines))
       \o <<tbl>> \o IndexedBlocks

\* KEY_VALUE_SET blocks of every kind of EntityTypes: two keys, of which
\* the second names an untyped block as its value, a value block, a block
\* without EntityTypes and one whose EntityTypes are empty.
KeySetBlocks ==
    { KeyBlock(<<"w1", "w2">>, << <<"v1">> >>),
      [Id |-> "k2", BlockType |-> "KEY_VALUE_SET", Confidence |-> 60,
       EntityTypes |-> {"KEY"},
       Relationships |-> <<[Type |-> "VALUE", Ids |-> <<"v2">>],
                           [Type |-> "CHILD", Ids |-> <<"w3">>]>>],
      [Id |-> "v3", BlockType |-> "KEY_VALUE_SET", Confidence |-> 55,
       EntityTypes |-> {"VALUE"},
       Relationships |-> <<[Type |-> "CHILD", Ids |-> <<"wb">>]>>],
      [Id |-> "v2", BlockType |-> "KEY_VALUE_SET", Confidence |-> 50,
       Relationships |-> <<[Type |-> "CHILD", Ids |-> <<"wa">>]>>],
      [Id |-> "v4", BlockType |-> "KEY_VALUE_SET", Confidence |-> 40,
       EntityTypes |-> {},
       Relationships |-> <<[Type |-> "CHILD", Ids |-> <<"wc">>]>>] }

\* KEY_VALUE_SET blocks of one collection.
MaxKeySets == 3

\* The collections of KEY_VALUE_SET blocks: every choice and order of at
\* most MaxKeySets of them, then the blocks they refer to.
KeySetCollections ==
    { <<[Id |-> "p1", BlockType |-> "PAGE"]>> \o sets \o IndexedBlocks :
         sets \in Arrangements(KeySetBlocks, MaxKeySets) }

\* The studied collections: every key with the full table, and every table
\* with the full key, under every choice and order of lines; and the
\* collections of KEY_VALUE_SET blocks.
Collections ==
    LET key0 == KeyBlock(<<"w1", "w2">>, << <<"v1">> >>)
        tbl0 == [Id |-> "t1", BlockType |-> "TABLE", Confidence |-> 88,
                 Relationships |->
                    <<[Type |-> "CHILD", Ids |-> <<"c21", "c12", "c11">>]>>]
    IN { Collection(lines, key, tbl0) :
            lines \in Arrangements(LineBlocks, 2), key \in KeyBlocks }
       \cup { Collection(lines, key0, tbl) :
            lines \in Arrangements(LineBlocks, 2), tbl \in TableBlocks }
       \cup KeySetCollections

\* The handler's extractor runs on the collection.
Extract ==
    /\ run.pc = "ready"
    /\ run' = [pc |-> "done", by |-> "handler",
               result |-> parse_textract_response(doc)]
    /\ UNCHANGED <<doc, system>>

\* The recovery script's extractor runs on the collection.
RecoverExtract ==
    /\ run.pc = "ready"
    /\ run' = [pc |-> "done", by |-> "recover",
               result |-> recover_parse_textract_response(doc)]
    /\ UNCHANGED <<doc, system>>

ExtractInit ==
    /\ SystemInit(OneDocument)
    /\ doc \in Collections
    /\ run = [pc |-> "ready"]

ExtractNext == Extract \/ RecoverExtract

ExtractSpec == ExtractInit /\ [][ExtractNext]_vars

\* The handler's extractor has run.
Extracted == run.pc = "done" /\ run.by = "handler"

\* The positions of the collection that hold a block of this type.
BlocksOfType(type) == {i \in 1..Len(doc) : doc[i].BlockType = type}

\* The k-th smallest element of a set of numbers.
KthSmallest(S, k) == CHOOSE x \in S : Cardinality({y \in S : y < x}) = k - 1

\* ------------------------------------------------------------------------
\* C15.  raw_text holds exactly one entry per LINE block, in the order of
\* the LINE blocks in the collection, each with that block's Text and
\* Confidence as they are; blocks of other types add nothing.
\* ------------------------------------------------------------------------
C15_RawTextInOrder ==
    run.pc = "done" =>
       LET lines == BlocksOfType("LINE")
       IN /\ Len(run.result.raw_text) = Cardinality(lines)
          /\ \A k \in 1..Cardinality(lines) :
                LET block == doc[KthSmallest(lines, k)]
                IN run.result.raw_text[k]
                      = [text |-> block.Text, confidence |-> block.Confidence]

\* C15 happens: two lines of different text and confidence, the second
\* one delivered first, with the key block between them.
C15_Witness ==
    /\ Extracted
    /\ Len(run.result.raw_text) = 2
    /\ run.result.raw_text[1].text = <<"Total">>
    /\ run.result.raw_text[2].confidence = 99

\* The block of the collection with this id (ids are unique in it), and
\* whether there is one.
InIndex(id) == \E i \in 1..Len(doc) : doc[i].Id = id
Indexed(id) == doc[CHOOSE i \in 1..Len(doc) : doc[i].Id = id]

\* The texts of the WORD blocks these ids refer to, in the order of the ids.
WordTexts(ids) ==
    LET words == {i \in 1..Len(ids) :
                     InIndex(ids[i]) /\ Indexed(ids[i]).BlockType = "WORD"}
    IN [k \in 1..Cardinality(words) |-> Indexed(ids[KthSmallest(words, k)]).Text]

RECURSIVE JoinSpace(_)
\* ' '.join(texts)
JoinSpace(texts) ==
    IF texts = <<>> THEN <<>>
    ELSE IF Len(texts) = 1 THEN texts[1]
    ELSE texts[1] \o <<" ">> \o JoinSpace(Tail(texts))

\* The string without its leading and trailing whitespace.
Trimmed(s) ==
    LET inked == {i \in 1..Len(s) : s[i] # " "}
    IN IF inked = {} THEN <<>>
       ELSE SubSeq(s, KthSmallest(inked, 1), KthSmallest(inked, Cardinality(inked)))

\* The words of a block's CHILD relationships, joined and trimmed.
ChildText(block) ==
    IF "Relationships" \in DOMAIN block
    THEN Trimmed(JoinSpace(WordTexts(RelIds(block.Relationships, "CHILD"))))
    ELSE <<>>

\* The pair a KEY block stands for.
PairOf(block) ==
    LET values == IF "Relationships" \in DOMAIN block
                  THEN RelIds(block.Relationships, "VALUE") ELSE <<>>
    IN [key |-> ChildText(block),
        value |-> IF values # <<>> /\ InIndex(values[1])
                  THEN ChildText(Indexed(values[1])) ELSE <<>>,
        confidence |-> block.Confidence]

\* ------------------------------------------------------------------------
\* C16.  key_value_pairs holds one pair per KEY_VALUE_SET block with KEY in
\* its EntityTypes, in block order.  Its key is the texts of the WORD
\* blocks its CHILD ids refer to, in id order, joined by one space and
\* trimmed; its value is built the same way from the block the first VALUE
\* id refers to, and is empty when there is no VALUE id or that id is not
\* in the index; its confidence is the key block's.  CHILD words Invoice,
\* Date with value word 2024-01-01 give "Invoice Date" / "2024-01-01".
\* ------------------------------------------------------------------------
C16_KeyValuePairing ==
    run.pc = "done" =>
       LET keys == {i \in BlocksOfType("KEY_VALUE_SET") :
                       "EntityTypes" \in DOMAIN doc[i] /\ "KEY" \in doc[i].EntityTypes}
           pairs == run.result.key_value_pairs
       IN /\ Len(pairs) = Cardinality(keys)
          /\ \A k \in 1..Cardinality(keys) :
                LET block == doc[KthSmallest(keys, k)]
                IN /\ pairs[k] = PairOf(block)
                   /\ block = KeyBlock(<<"w1", "w2">>, << <<"v1">> >>)
                         => /\ pairs[k].key = <<"Invoice", " ", "Date">>
                            /\ pairs[k].value = <<"2024-01-01">>

\* C16 happens: the key lists a missing id and a word, and two VALUE ids of
\* which the first is in the index.
C16_Witness ==
    /\ Extracted
    /\ \E i \in 1..Len(doc) : doc[i] = KeyBlock(<<"gone", "w2">>, << <<"v1", "gone">> >>)
    /\ run.result.key_value_pairs
          = <<[key |-> <<"Date">>, value |-> <<"2024-01-01">>, confidence |-> 95]>>

\* The ids a TABLE block lists as children, and the places in that list
\* that refer to a CELL block of the index.
ListedCells(tbl) ==
    IF "Relationships" \in DOMAIN tbl
    THEN RelIds(tbl.Relationships, "CHILD") ELSE <<>>
CellPlaces(tbl) ==
    {i \in 1..Len(ListedCells(tbl)) :
        /\ InIndex(ListedCells(tbl)[i])
        /\ Indexed(ListedCells(tbl)[i]).BlockType = "CELL"}

\* The cell block listed at a place, the row indexes of a table and the
\* column indexes of one of its rows.
CellAt(tbl, i) == Indexed(ListedCells(tbl)[i])
RowIndexes(tbl) == {CellAt(tbl, i).RowIndex : i \in CellPlaces(tbl)}
ColumnIndexes(tbl, row) ==
    {CellAt(tbl, i).ColumnIndex :
        i \in {p \in CellPlaces(tbl) : CellAt(tbl, p).RowIndex = row}}

\* The text at a position: that of the cell listed last for it.
TextAt(tbl, row, col) ==
    LET places == {i \in CellPlaces(tbl) :
                      /\ CellAt(tbl, i).RowIndex = row
                      /\ CellAt(tbl, i).ColumnIndex = col}
    IN ChildText(CellAt(tbl, KthSmallest(places, Cardinality(places))))

\* The entries of the tables list, one per TABLE block that has a cell.
TablesWithCells == {i \in BlocksOfType("TABLE") : CellPlaces(doc[i]) # {}}

\* ------------------------------------------------------------------------
\* C17.  For every TABLE block the emitted rows follow strictly ascending
\* RowIndex and, inside a row, the texts follow strictly ascending
\* ColumnIndex, whatever the order of the CELL children; a position without
\* cell is absent, not padded.  Cells (1,1) = A, (1,2) = B, (2,1) = C give
\* rows [[A, B], [C]] in every listing order.
\* ------------------------------------------------------------------------
C17_TableAssembly ==
    Extracted =>
       /\ Len(run.result.tables) = Cardinality(TablesWithCells)
       /\ \A t \in 1..Cardinality(TablesWithCells) :
             LET tbl == doc[KthSmallest(TablesWithCells, t)]
                 rows == run.result.tables[t].rows
             IN /\ Len(rows) = Cardinality(RowIndexes(tbl))
                /\ \A k \in 1..Len(rows) :
                      LET row == KthSmallest(RowIndexes(tbl), k)
                          cols == ColumnIndexes(tbl, row)
                      IN /\ Len(rows[k]) = Cardinality(cols)
                         /\ \A m \in 1..Len(rows[k]) :
                               rows[k][m] = TextAt(tbl, row, KthSmallest(cols, m))
                /\ {ListedCells(tbl)[i] : i \in 1..Len(ListedCells(tbl))}
                      = {"c11", "c12", "c21"}
                   => rows = << <<<<"A">>, <<"B">>>>, <<<<"C">>>> >>

\* C17 happens: the cell of the second row is listed first and the second
\* column before the first.
C17_Witness ==
    /\ Extracted
    /\ \E i \in BlocksOfType("TABLE") :
          ListedCells(doc[i]) = <<"c21", "c12", "c11">>
    /\ Len(run.result.tables) = 1
    /\ run.result.tables[1].rows = << <<<<"A">>, <<"B">>>>, <<<<"C">>>> >>

\* ------------------------------------------------------------------------
\* C18.  A TABLE block that yields no row (no Relationships, no CHILD
\* relationship, or CHILD ids of which none refers to a CELL block) adds no
\* entry to tables: every entry has at least one row, and every row at
\* least one cell.
\* ------------------------------------------------------------------------
C18_NoEmptyTable ==
    Extracted =>
       /\ \A t \in 1..Len(run.result.tables) :
             /\ run.result.tables[t].rows # <<>>
             /\ \A k \in 1..Len(run.result.tables[t].rows) :
                   run.result.tables[t].rows[k] # <<>>
       /\ (\A i \in BlocksOfType("TABLE") : CellPlaces(doc[i]) = {})
             => run.result.tables = <<>>

\* C18 happens: the only child of the table is not in the index.
C18_Witness ==
    /\ Extracted
    /\ \E i \in BlocksOfType("TABLE") : ListedCells(doc[i]) = <<"gone">>
    /\ run.result.tables = <<>>

\* The collection with, in the relationships of these types, every id that
\* no block of the collection has removed.
WithoutDangling(blocks, types) ==
    LET ids == {blocks[i].Id : i \in 1..Len(blocks)}
        Known(id) == id \in ids
        Clean(rel) == IF rel.Type \in types
                      THEN [rel EXCEPT !.Ids = SelectSeq(@, Known)]
                      ELSE rel
    IN [i \in 1..Len(blocks) |->
          IF "Relationships" \in DOMAIN blocks[i]
          THEN [blocks[i] EXCEPT !.Relationships =
                                   [k \in 1..Len(@) |-> Clean(@[k])]]
          ELSE blocks[i]]

\* What the extractor that ran gives for a collection.
SameExtractor(blocks) ==
    IF run.by = "handler" THEN parse_textract_response(blocks)
    ELSE recover_parse_textract_response(blocks)

\* Some relationship of these types lists an id that no block has.
HasDangling(types) ==
    \E i \in 1..Len(doc) :
       /\ "Relationships" \in DOMAIN doc[i]
       /\ \E k \in 1..Len(doc[i].Relationships) :
             /\ doc[i].Relationships[k].Type \in types
             /\ \E n \in 1..Len(doc[i].Relationships[k].Ids) :
                   ~InIndex(doc[i].Relationships[k].Ids[n])

\* ------------------------------------------------------------------------
\* C19.  Ids that are absent from the index are tolerated: the result for a
\* collection is the result for the same collection with the dangling ids
\* removed from its CHILD and VALUE relationships.
\* ------------------------------------------------------------------------
C19_DanglingIsNothing ==
    run.pc = "done" =>
       run.result = SameExtractor(WithoutDangling(doc, {"CHILD", "VALUE"}))

\* C19 as it holds: the result for a collection is the result for the same
\* collection with the dangling ids removed from its CHILD relationships,
\* so a dangling CHILD id contributes no text and no cell; and a key whose
\* first VALUE id is absent from the index has the empty value, whatever
\* ids follow it in the relationship.
C19_DanglingChildIsNothing ==
    run.pc = "done" =>
       /\ run.result = SameExtractor(WithoutDangling(doc, {"CHILD"}))
       /\ LET keys == {i \in BlocksOfType("KEY_VALUE_SET") :
                          "EntityTypes" \in DOMAIN doc[i]
                          /\ "KEY" \in doc[i].EntityTypes}
          IN \A k \in 1..Cardinality(keys) :
                LET block == doc[KthSmallest(keys, k)]
                    values == IF "Relationships" \in DOMAIN block
                              THEN RelIds(block.Relationships, "VALUE") ELSE <<>>
                IN (values # <<>> /\ ~InIndex(values[1]))
                      => run.result.key_value_pairs[k].value = <<>>

\* C19 happens: the key lists a missing child before a word, and a missing
\* VALUE id before the id of its value block.
C19_Witness ==
    /\ Extracted
    /\ HasDangling({"CHILD"})
    /\ \E i \in 1..Len(doc) :
          doc[i] = KeyBlock(<<"gone", "w2">>, << <<"gone", "v1">> >>)
    /\ run.result.key_value_pairs
          = <<[key |-> <<"Date">>, value |-> <<>>, confidence |-> 95]>>

\* The notification path on a batch of two documents of the same file
\* name, one of them in a sub-folder of the batch prefix: the launcher, the
\* service and the handler.
PairInit == InitWith(TwoDocuments)

PairNext ==
    \/ Launch
    \/ ServiceFinish
    \/ HStart
    \/ HProcess
    \/ HPut
    \/ HUpdate
    \/ HReturn

PairSpec == PairInit /\ [][PairNext]_vars

\* ------------------------------------------------------------------------
\* C20.  Output precedes completion: in every state an item with Status
\* COMPLETED has an OutputKey, and the output bucket its writer used holds,
\* at that key, an object of that job.
\* ------------------------------------------------------------------------
C20_OutputPrecedesCompletion ==
    \A j \in JobIds :
       (HasItem(j) /\ table[j].Status = "COMPLETED") =>
          /\ "OutputKey" \in DOMAIN table[j]
          /\ \E loc \in DOMAIN s3 :
                /\ loc[2] = table[j].OutputKey
                /\ s3[loc].metadata.job_id = j

\* The locations of the output store that hold an object of job j.
ObjectsIn(store, j) == {loc \in DOMAIN store : store[loc].metadata.job_id = j}

\* The handler has left an object of job j behind and is not running.
HandlerLeftOutput(j) ==
    /\ h.pc = "idle"
    /\ \E loc \in ObjectsIn(s3, j) : "recovered" \notin DOMAIN s3[loc].metadata

\* ------------------------------------------------------------------------
\* C21.  Crash between output write and state update.  When the handler
\* stops after put_object and before update_item the item stays as it was,
\* IN_PROGRESS.  When the recovery script then writes the output of that
\* job, it writes to the location the handler wrote to (same bucket, same
\* key), so that the store holds exactly one object of the job; and its
\* update sets the item COMPLETED with the OutputKey of that object.
\* ------------------------------------------------------------------------
C21_CrashThenRecover ==
    [][/\ (h.pc = "update" /\ h' = HIdle) => table' = table
       /\ (/\ r.pc = "put"
           /\ r'.pc = "update"
           /\ HandlerLeftOutput(RJob.JobId)
           /\ table[RJob.JobId].Status = "IN_PROGRESS")
             => ObjectsIn(s3', RJob.JobId) = {<<RJob.Bucket, r.output_key>>}
       /\ (/\ r.pc = "update"
           /\ LastOut(r') = "recovered"
           /\ r' # r
           /\ r' # RIdle)
             => /\ table'[RJob.JobId].Status = "COMPLETED"
                /\ table'[RJob.JobId].OutputKey = r.output_key
                /\ <<RJob.Bucket, r.output_key>> \in ObjectsIn(s3, RJob.JobId)]_vars

\* The job of the SUCCEEDED record the handler is working on: the one it is
\* about to look up, or the one whose object it is about to write.
HSucceededJob ==
    IF h.pc = "put" THEN h.job_data.JobId ELSE HParsed.JobId

\* The handler is on a SUCCEEDED record of a job whose item is IN_PROGRESS.
HOnRunningJob ==
    /\ \/ h.pc = "put"
       \/ HPending /\ HParsed.ok /\ HParsed.Status = "SUCCEEDED"
    /\ HasItem(HSucceededJob)
    /\ table[HSucceededJob].Status = "IN_PROGRESS"

\* The step gave the record up because get_document_analysis, the
\* extractor or put_object raised.
HProcessingFailed ==
    /\ LastOut(h') = "error"
    /\ Len(h'.out) = Len(h.out) + 1
    /\ h'.calls \cap {"get_document_analysis", "parse_textract_response",
                      "put_object"} # {}
    /\ "update_item" \notin h'.calls

\* ------------------------------------------------------------------------
\* C22.  State unchanged on processing failure.  When the handler is on a
\* SUCCEEDED record of an IN_PROGRESS job and the retrieval, the extraction
\* or the output write raises, the item is left exactly as it was
\* (IN_PROGRESS, without OutputKey and CompletedTime) and nothing is
\* written to the bucket; the record is counted as failed and the handler
\* goes on to the next record without trying again (a step that leaves the
\* write of the output has written it or has given the record up); the
\* item is still found by the recovery script's scan.
\* ------------------------------------------------------------------------
C22_FailureLeavesState ==
    [][/\ (h.pc = "put" /\ h' # h /\ h' # HIdle)
          => \/ h'.pc = "update"
             \/ HProcessingFailed
       /\ (HOnRunningJob /\ HProcessingFailed)
          => /\ table' = table
             /\ s3' = s3
             /\ table'[HSucceededJob].Status = "IN_PROGRESS"
             /\ "OutputKey" \notin DOMAIN table'[HSucceededJob]
             /\ "CompletedTime" \notin DOMAIN table'[HSucceededJob]
             /\ h'.pc = "loop"
             /\ h'.idx = h.idx + 1
             /\ h'.failed_count = h.failed_count + 1
             /\ h'.processed_count = h.processed_count
             /\ \E i \in 1..Len(ScanItems(table', JobIdSeq)) :
                   ScanItems(table', JobIdSeq)[i].JobId = HSucceededJob]_vars

\* C22 happens: put_object raised on the first record, the item is still
\* IN_PROGRESS and the bucket is empty.
C22_Witness ==
    /\ LastOut(h) = "error"
    /\ "put_object" \in h.calls
    /\ h.failed_count = 1
    /\ h.processed_count = 0
    /\ table["job1"].Status = "IN_PROGRESS"
    /\ DOMAIN s3 = {}

\* The attributes the launcher's put_item gives an item (lines 68-75).
LauncherAttributes == {"JobId", "SourceKey", "Bucket", "BatchPrefix", "Status", "StartTime"}

\* ------------------------------------------------------------------------
\* C23.  Only the launcher creates items: in every state every item of the
\* job table carries the SourceKey, Bucket, BatchPrefix and StartTime the
\* launcher gave it, and a step of the handler or of the recovery script
\* never adds an item for a job id that had none, whatever the status of
\* the notification.
\* ------------------------------------------------------------------------
C23_OnlyLauncherCreates ==
    /\ [](\A j \in JobIds : HasItem(j) => LauncherAttributes \subseteq DOMAIN table[j])
    /\ [][\A j \in JobIds :
             (~HasItem(j) /\ table'[j] # None) => (launch = None /\ launch' # None)]_vars

\* ------------------------------------------------------------------------
\* C24.  No untracked jobs: once the launcher has run, every job id the
\* analysis service returned has an item in the job table, whichever call
\* of a document's sequence (start_document_analysis, then put_item)
\* failed; so no job is known to the service without an item, and the
\* handler never finds the notification of a launched job orphaned.
\* ------------------------------------------------------------------------
C24_NoUntrackedJob ==
    /\ \A j \in JobIds : svc[j] # "NONE" => HasItem(j)
    /\ \A i \in 1..Len(h.out) : h.out[i] # "orphan"

\* The step is one in which the handler's update_item set an item
\* COMPLETED and returned.
HCompletedStep ==
    /\ h.pc = "update"
    /\ h' # h
    /\ LastOut(h') = "processed"
    /\ Len(h'.out) = Len(h.out) + 1
    /\ table'[h.job_data.JobId] # None
    /\ table'[h.job_data.JobId].Status = "COMPLETED"
    /\ table'[h.job_data.JobId].OutputKey = h.output_key

\* ------------------------------------------------------------------------
\* C25.  The handler's counts account for every record of the batch exactly
\* once: at the return processed + failed is the number of records, a
\* record adds one to exactly one of the two counts when the handler is
\* done with it, and processed grows exactly in the steps in which this
\* invocation's update set an item COMPLETED.
\* ------------------------------------------------------------------------
C25_CountsAccount ==
    /\ [](HAtReturn => h.processed_count + h.failed_count = Len(h.batch))
    /\ [][(h' # h /\ h.pc # "idle" /\ h' # HIdle)
             => /\ (h'.processed_count + h'.failed_count)
                       - (h.processed_count + h.failed_count)
                    = h'.idx - h.idx
                /\ h'.idx - h.idx \in {0, 1}
                /\ h'.processed_count >= h.processed_count
                /\ h'.failed_count >= h.failed_count
                /\ (h'.processed_count = h.processed_count + 1) <=> HCompletedStep]_vars

\* C25 happens: the handler is at its return after a batch of two records
\* of which it completed the first; update_item raised on the second.
C25_Witness ==
    /\ HAtReturn
    /\ Len(h.batch) = 2
    /\ h.out = <<"processed", "error">>
    /\ "update_item" \in h.calls
    /\ h.processed_count = 1
    /\ h.failed_count = 1

\* ------------------------------------------------------------------------
\* C26.  Outputs of different jobs never collide: two items with distinct
\* SourceKey under the same BatchPrefix (keys in sub-folders of the prefix
\* included) get distinct output keys, from the handler and from the
\* recovery script alike, and no write to the bucket replaces an object of
\* another job.
\* ------------------------------------------------------------------------
C26_NoOutputCollision ==
    /\ [](\A i, j \in JobIds :
            (/\ HasItem(i) /\ HasItem(j)
             /\ "SourceKey" \in DOMAIN table[i] /\ "SourceKey" \in DOMAIN table[j]
             /\ table[i].SourceKey # table[j].SourceKey
             /\ table[i].BatchPrefix = table[j].BatchPrefix)
               => /\ HandlerOutputKey(table[i]) # HandlerOutputKey(table[j])
                  /\ RecoverOutputKey(table[i]) # RecoverOutputKey(table[j]))
    /\ [][\A loc \in DOMAIN s3 :
             s3'[loc].metadata.job_id = s3[loc].metadata.job_id]_vars

\* The positions of the collection that hold a KEY_VALUE_SET block, and
\* those among them whose EntityTypes hold KEY.
KeySets == BlocksOfType("KEY_VALUE_SET")
KeyPlaces ==
    {i \in KeySets : "EntityTypes" \in DOMAIN doc[i] /\ "KEY" \in doc[i].EntityTypes}

\* ------------------------------------------------------------------------
\* C27.  Only KEY blocks emit pairs: key_value_pairs has exactly one entry
\* per KEY_VALUE_SET block whose EntityTypes hold KEY, in the order of
\* these blocks in the collection (the k-th entry carries the confidence
\* and the key text of the k-th of them); a KEY_VALUE_SET block without
\* KEY, be it a value block or a block without EntityTypes, whether or not
\* a key names it as its value, gives no entry of its own.  Blocks of one
\* collection differ in their Confidence, which tells whose an entry is.
\* ------------------------------------------------------------------------
C27_OnlyKeysEmit ==
    run.pc = "done" =>
       LET pairs == run.result.key_value_pairs
       IN /\ Len(pairs) = Cardinality(KeyPlaces)
          /\ \A k \in 1..Cardinality(KeyPlaces) :
                /\ pairs[k].confidence = doc[KthSmallest(KeyPlaces, k)].Confidence
                /\ pairs[k].key = ChildText(doc[KthSmallest(KeyPlaces, k)])
          /\ \A i \in KeySets \ KeyPlaces :
                \A k \in 1..Len(pairs) : pairs[k].confidence # doc[i].Confidence

\* C27 happens: the second key comes first, then the untyped block it
\* names as its value, then the first key; there are two entries, in that
\* order, and the value block of the first key comes after all of them.
C27_Witness ==
    /\ Extracted
    /\ Cardinality(KeySets) = 4
    /\ doc[2].Id = "k2" /\ doc[3].Id = "v2" /\ doc[4].Id = "k1"
    /\ run.result.key_value_pairs
          = <<[key |-> <<"2024-01-01">>, value |-> <<"A">>, confidence |-> 60],
              [key |-> <<"Invoice", " ", "Date">>, value |-> <<"2024-01-01">>,
               confidence |-> 95]>>

====
